---- MODULE Spec2Model ----
(***************************************************************************)
(* arXiv-Paper-Quality-Filter: venue resolution (first_analysis) and       *)
(* keyword scoring (second_analysis) of src/arXiv-Paper-Quality-Filter.py. *)
(* Text is modelled character by character: a Python str is a TLA+ string, *)
(* read with Len, SubSeq and \o, and every regular expression of the       *)
(* source is an operator that matches the way re.search / re.finditer do.  *)
(***************************************************************************)
EXTENDS Integers, Sequences, FiniteSets, TLC

(***************************************************************************)
(* Characters and the str methods the source calls.                        *)
(***************************************************************************)
UpperChars == "ABCDEFGHIJKLMNOPQRSTUVWXYZ"
LowerChars == "abcdefghijklmnopqrstuvwxyz"
DigitChars == "0123456789"

Ch(s, i) == SubSeq(s, i, i)

CharsOf(s) == { Ch(s, i) : i \in 1..Len(s) }

UpperSet == CharsOf(UpperChars)
LowerSet == CharsOf(LowerChars)
DigitSet == CharsOf(DigitChars)
WordSet == UpperSet \cup LowerSet \cup DigitSet \cup {"_"}
SpaceSet == {" "}

LowerMap == [c \in UpperSet |->
               Ch(LowerChars, CHOOSE i \in 1..26 : Ch(UpperChars, i) = c)]

LowerCh(c) == IF c \in UpperSet THEN LowerMap[c] ELSE c

\* the characters lo..hi of s in lower case (halving keeps the evaluation
\* shallow on long texts)
RECURSIVE LowerRange(_, _, _)
LowerRange(s, lo, hi) ==
  IF lo > hi THEN ""
  ELSE IF lo = hi THEN LowerCh(Ch(s, lo))
  ELSE LowerRange(s, lo, (lo + hi) \div 2)
         \o LowerRange(s, (lo + hi) \div 2 + 1, hi)

\* str.lower()
Lower(s) == LowerRange(s, 1, Len(s))

\* sub == s[i .. i+Len(sub)-1], positions counted from 1
At(s, i, sub) ==
  /\ i >= 1
  /\ i + Len(sub) - 1 <= Len(s)
  /\ SubSeq(s, i, i + Len(sub) - 1) = sub

\* the positions where sub occurs in s
Occ(s, sub) == { i \in 1..(Len(s) - Len(sub) + 1) : At(s, i, sub) }

\* `sub in s`
In(sub, s) == Occ(s, sub) # {}

Min(S) == CHOOSE x \in S : \A y \in S : x <= y
Max(S) == CHOOSE x \in S : \A y \in S : x >= y

\* str.find(sub), positions counted from 1, 0 when absent (Python: -1)
Find(s, sub) == IF Occ(s, sub) = {} THEN 0 ELSE Min(Occ(s, sub))

\* str.strip()
Strip(s) ==
  LET keep == { i \in 1..Len(s) : Ch(s, i) \notin SpaceSet }
  IN IF keep = {} THEN "" ELSE SubSeq(s, Min(keep), Max(keep))

\* str.endswith(suf)
EndsWith(s, suf) == Len(suf) <= Len(s) /\ At(s, Len(s) - Len(suf) + 1, suf)

\* str.startswith(pre)
StartsWith(s, pre) == At(s, 1, pre)

\* str.isupper(): at least one cased character and no lowercase one
IsUpper(s) ==
  /\ \E i \in 1..Len(s) : Ch(s, i) \in UpperSet
  /\ \A i \in 1..Len(s) : Ch(s, i) \notin LowerSet

\* str.isdigit()
IsDigit(s) == Len(s) > 0 /\ \A i \in 1..Len(s) : Ch(s, i) \in DigitSet

\* s[max(0, a):b] with Python's 0-based half-open slice bounds
Slice(s, a, b) == SubSeq(s, (IF a < 0 THEN 0 ELSE a) + 1, b)

(***************************************************************************)
(* The regular-expression pieces of the source.                            *)
(***************************************************************************)
\* the characters re.escape puts a backslash before
ReSpecialSet == CharsOf("()[]{}?*+-|^$\\.&~# ")

RECURSIVE EscapeRange(_, _, _)
EscapeRange(s, lo, hi) ==
  IF lo > hi THEN ""
  ELSE IF lo = hi
  THEN (IF Ch(s, lo) \in ReSpecialSet THEN "\\" \o Ch(s, lo) ELSE Ch(s, lo))
  ELSE EscapeRange(s, lo, (lo + hi) \div 2)
         \o EscapeRange(s, (lo + hi) \div 2 + 1, hi)

\* re.escape left out: the name goes into the pattern as it is
ReEscape_plain(s) == s

\* re.escape(s)
ReEscape(s) == EscapeRange(s, 1, Len(s))

\* position i of the pattern fragment p holds a backslash that escapes the
\* next character: an even number of backslashes stands right before it
Escaping(p, i) ==
  /\ Ch(p, i) = "\\"
  /\ i < Len(p)
  /\ LET others == { j \in 1..(i - 1) : Ch(p, j) # "\\" }
         first == IF others = {} THEN 1 ELSE Max(others) + 1
     IN (i - first) % 2 = 0

RECURSIVE LitRange(_, _, _)
LitRange(p, lo, hi) ==
  IF lo > hi THEN ""
  ELSE IF lo = hi THEN (IF Escaping(p, lo) THEN "" ELSE Ch(p, lo))
  ELSE LitRange(p, lo, (lo + hi) \div 2)
         \o LitRange(p, (lo + hi) \div 2 + 1, hi)

\* the text a pattern fragment matches: a backslash makes the next character
\* literal
ReLiteral(p) == LitRange(p, 1, Len(p))

\* the positions of p that hold an unescaped c
Unescaped(p, c) ==
  { i \in 1..Len(p) : Ch(p, i) = c /\ ~Escaping(p, i) /\ ~Escaping(p, i - 1) }

\* re.compile accepts the fragment p: its unescaped parentheses are balanced
\* (re.error "unbalanced parenthesis" / "missing )" otherwise)
ReCompiles(p) ==
  LET open == Unescaped(p, "(")
      close == Unescaped(p, ")")
  IN /\ Cardinality(open) = Cardinality(close)
     /\ \A i \in close :
          Cardinality({ j \in open : j < i }) >=
            Cardinality({ j \in close : j <= i })

IsWordAt(s, i) == i >= 1 /\ i <= Len(s) /\ Ch(s, i) \in WordSet

\* \b holds in front of position k (k = Len(s)+1: at the end)
Boundary(s, k) == IsWordAt(s, k - 1) # IsWordAt(s, k)

\* re.search(r'\b' + lit + r'\b', s)
WordSearch(s, lit) ==
  \E i \in Occ(s, lit) : Boundary(s, i) /\ Boundary(s, i + Len(lit))

\* re.search(r'\b' + lit + r'\b', s, re.IGNORECASE)
WordSearchCI(s, lit) == WordSearch(Lower(s), Lower(lit))

\* length of the run of characters of set S that starts at position i
RunLen(s, i, S) ==
  LET stops == { j \in i..Len(s) : Ch(s, j) \notin S }
  IN IF i > Len(s) THEN 0
     ELSE IF stops = {} THEN Len(s) - i + 1
     ELSE Min(stops) - i

\* re.search(r'\b' + lit + r'\d{4}\b', s)
WordYearSearch(s, lit) ==
  \E i \in Occ(s, lit) :
    /\ Boundary(s, i)
    /\ RunLen(s, i + Len(lit), DigitSet) >= 4
    /\ Boundary(s, i + Len(lit) + 4)

WordYearSearchCI(s, lit) == WordYearSearch(Lower(s), Lower(lit))

\* first position >= i that holds no whitespace (\s* and \s+ are greedy)
SkipSpaces(s, i) == i + RunLen(s, i, SpaceSet)

\* the characters a capture group [^,.()] stops at
DelimSet == CharsOf(",.()")

\* first position >= i that holds a delimiter, Len(s)+1 when none
RunEnd(s, i) ==
  LET stops == { j \in i..Len(s) : Ch(s, j) \in DelimSet }
  IN IF stops = {} THEN (IF i > Len(s) THEN i ELSE Len(s) + 1) ELSE Min(stops)

\* The fixed heads of the acceptance patterns: each word is followed by \s+.
AcceptedAt == << {"Accepted", "accepted"}, {"at", "in", "to", "for"} >>
AcceptedBy == << {"Accepted", "accepted"}, {"by", "for"} >>
PublishedIn == << {"Published", "published"}, {"in"} >>
ToAppearIn == << {"To", "to"}, {"appear"}, {"in"} >>
ToBePublishedIn == << {"To", "to"}, {"be"}, {"published"}, {"in"} >>

\* The head `words` matched at position p: the position after its last \s+,
\* 0 when it does not match there.
RECURSIVE LeadEnd(_, _, _)
LeadEnd(s, p, words) ==
  IF words = << >> THEN p
  ELSE LET ok == { w \in Head(words) :
                     At(s, p, w) /\ RunLen(s, p + Len(w), SpaceSet) >= 1 }
       IN IF ok = {} THEN 0
          ELSE LET w == CHOOSE w \in ok : TRUE
               IN LeadEnd(s, SkipSpaces(s, p + Len(w)), Tail(words))

\* Where the capture group may start after a head that ends at q, in the
\* order the regex engine tries them: after an optional "the\s+", else at q.
\* (A shorter \s+ only adds leading blanks to the group; group(1) is stripped
\* and no venue name starts with a blank.)
GroupStarts(s, q) ==
  IF At(s, q, "the") /\ RunLen(s, q + 3, SpaceSet) >= 1
  THEN << SkipSpaces(s, q + 3), q >>
  ELSE << q >>

(***************************************************************************)
(* The static tables of the source.                                        *)
(***************************************************************************)
\* CONFERENCE_MAPPINGS, in the insertion order of the dict literal
CONFERENCE_MAPPINGS ==
  << << "IJCNN", "International Joint Conference on Neural Networks" >>,
     << "NAACL", "Annual Meeting of the North American Chapter of the Association for Computational Linguistics" >>,
     << "ACL", "Annual Meeting of the Association for Computational Linguistics" >>,
     << "ICCV", "International Conference on Computer Vision" >>,
     << "CVPR", "IEEE/CVF Conference on Computer Vision and Pattern Recognition" >>,
     << "EMNLP", "Conference on Empirical Methods in Natural Language Processing" >>,
     << "ICML", "International Conference on Machine Learning" >>,
     << "NeurIPS", "Annual Conference on Neural Information Processing Systems" >>,
     << "AICCSA", "ACS/IEEE International Conference on Computer Systems and Applications" >> >>

ccf_a_conferences ==
  { "International Conference on Computer Vision",
    "IEEE/CVF Conference on Computer Vision and Pattern Recognition",
    "Annual Conference on Neural Information Processing Systems",
    "International Conference on Machine Learning",
    "Annual Meeting of the Association for Computational Linguistics" }

ccf_b_conferences ==
  { "Conference on Empirical Methods in Natural Language Processing",
    "Annual Meeting of the North American Chapter of the Association for Computational Linguistics" }

ccf_c_conferences == { "International Joint Conference on Neural Networks" }

special_journals == { "Artificial Intelligence", "Neural Networks", "AI" }

prefixes == { "Conference on", "Journal of", "Symposium on", "Workshop on" }

conference_indicators ==
  { "conference on", "symposium on", "workshop on",
    "international", "journal of", "transactions on" }

\* keys of a dict kept as a sequence of <<key, value>> pairs
Keys(d) == { d[k][1] : k \in DOMAIN d }
HasKey(d, key) == \E k \in DOMAIN d : d[k][1] = key
Get(d, key) == d[CHOOSE k \in DOMAIN d : d[k][1] = key][2]

(***************************************************************************)
(* is_exact_match                                                          *)
(***************************************************************************)
\* the standalone occurrences of lit: (?:^|\W)(lit)(?:\W|$), case-sensitive
StandaloneStarts(text, lit) ==
  { i \in Occ(text, lit) :
      /\ (i = 1 \/ ~IsWordAt(text, i - 1))
      /\ (i + Len(lit) > Len(text) \/ ~IsWordAt(text, i + Len(lit))) }

\* lines 277-295: the branch for special_journals
special_match(text, journal_name) ==
  LET lit == ReLiteral(ReEscape(journal_name))
      found == StandaloneStarts(text, lit)
  IN IF found = {} THEN FALSE
     ELSE LET start == Min(found) - 1       \* match.span(1)[0], 0-based
          IN ~ \E prefix \in prefixes :
                 EndsWith(Strip(Slice(text, start - Len(prefix) - 5, start)),
                          prefix)

\* lines 303-317: one accepted_patterns entry with head `words`; re.search
\* takes the leftmost match, and in it the first group start that succeeds
accepted_match(text, journal_name, words) ==
  LET lit == ReLiteral(ReEscape(journal_name))
      Starts(p) == LET q == LeadEnd(text, p, words)
                   IN IF q = 0 THEN << >> ELSE GroupStarts(text, q)
      NamePos(g) == { j \in Occ(text, lit) : j >= g /\ j <= RunEnd(text, g) }
      Good(p) == { k \in DOMAIN Starts(p) : NamePos(Starts(p)[k]) # {} }
      P == { p \in 1..Len(text) : Good(p) # {} }
  IN /\ P # {}
     /\ LET p == Min(P)
            g == Starts(p)[Min(Good(p))]
            j == Max(NamePos(g))
            e == RunEnd(text, j + Len(lit))
            matched_text == Strip(SubSeq(text, g, e - 1))
        IN \/ Lower(matched_text) = Lower(journal_name)
           \/ WordSearchCI(matched_text, lit)

\* lines 321-323: journal_name\s*\([A-Z]+\) under re.IGNORECASE
abbr_match(text, journal_name) ==
  LET lit == ReLiteral(ReEscape(journal_name))
  IN \E i \in Occ(Lower(text), Lower(lit)) :
       LET k == SkipSpaces(text, i + Len(lit))
           n == RunLen(text, k + 1, UpperSet \cup LowerSet)
       IN /\ At(text, k, "(")
          /\ n >= 1
          /\ At(text, k + 1 + n, ")")

\* lines 327-346: standalone word, not right after a conference indicator
standalone_match(text, journal_name) ==
  LET lit == ReLiteral(ReEscape(journal_name))
      surrounding_text == Lower(text)
      journal_pos == Find(surrounding_text, Lower(journal_name)) - 1  \* 0-based
      pre_text == Strip(Slice(surrounding_text, journal_pos - 50, journal_pos))
  IN /\ WordSearchCI(text, lit)
     /\ ~ \E indicator \in conference_indicators : EndsWith(pre_text, indicator)

\* lines 299-350: the branch for every other name
ordinary_match(text, journal_name) ==
  /\ In(Lower(journal_name), Lower(text))
  /\ \/ accepted_match(text, journal_name, AcceptedAt)
     \/ accepted_match(text, journal_name, AcceptedBy)
     \/ accepted_match(text, journal_name, PublishedIn)
     \/ accepted_match(text, journal_name, ToAppearIn)
     \/ abbr_match(text, journal_name)
     \/ standalone_match(text, journal_name)

is_exact_match(text, journal_name) ==
  IF journal_name \in special_journals
  THEN special_match(text, journal_name)
  ELSE ordinary_match(text, journal_name)

(***************************************************************************)
(* extract_conference_name                                                 *)
(***************************************************************************)
\* the heads of patterns 1-5 (lines 360-365)
ExtractHeads ==
  << AcceptedAt, AcceptedBy, PublishedIn, ToAppearIn, ToBePublishedIn >>

\* [-–—]: the hyphen is the only dash of the modelled alphabet
DashSet == {"-"}

\* One match of pattern `kind` (1..9, the order of the list `patterns`)
\* starting at position p: << position after the match, group(1) >>, or << >>.
MatchAt(kind, s, p) ==
  IF kind <= 5 THEN
    \* head, optional "the", then ([^,.()]+)
    LET q == LeadEnd(s, p, ExtractHeads[kind])
        gs == IF q = 0 THEN << >> ELSE GroupStarts(s, q)
        good == { k \in DOMAIN gs : RunEnd(s, gs[k]) > gs[k] }
    IN IF good = {} THEN << >>
       ELSE LET g == gs[Min(good)]
            IN << RunEnd(s, g), SubSeq(s, g, RunEnd(s, g) - 1) >>
  ELSE IF kind = 6 THEN
    \* (?:[^(]+)\s*\(([A-Z]{2,}(?:\s*[-–—]?\s*\d*)?)\)
    LET o == p + RunLen(s, p, CharsOf(s) \ {"("})
        u == RunLen(s, o + 1, UpperSet)
        a == SkipSpaces(s, o + 1 + u)
        b == IF a <= Len(s) /\ Ch(s, a) \in DashSet THEN a + 1 ELSE a
        c == SkipSpaces(s, b)
        d == c + RunLen(s, c, DigitSet)
    IN IF o > p /\ At(s, o, "(") /\ u >= 2 /\ At(s, d, ")")
       THEN << d + 1, SubSeq(s, o + 1, d - 1) >>
       ELSE << >>
  ELSE IF kind = 7 THEN
    \* \b([A-Z]{3,}(?:\s*\d{4})?)\b
    LET u == RunLen(s, p, UpperSet)
        a == SkipSpaces(s, p + u)
    IN IF ~(Boundary(s, p) /\ u >= 3) THEN << >>
       ELSE IF RunLen(s, a, DigitSet) >= 4 /\ Boundary(s, a + 4)
       THEN << a + 4, SubSeq(s, p, a + 3) >>
       ELSE IF Boundary(s, p + u)
       THEN << p + u, SubSeq(s, p, p + u - 1) >>
       ELSE << >>
  ELSE IF kind = 8 THEN
    \* \b([A-Z]{2,}\d{4})\b
    LET u == RunLen(s, p, UpperSet)
    IN IF /\ Boundary(s, p) /\ u >= 2
          /\ RunLen(s, p + u, DigitSet) >= 4 /\ Boundary(s, p + u + 4)
       THEN << p + u + 4, SubSeq(s, p, p + u + 3) >>
       ELSE << >>
  ELSE
    \* \b([A-Z]{2,})\s+\d{4}\b
    LET u == RunLen(s, p, UpperSet)
        a == SkipSpaces(s, p + u)
    IN IF /\ Boundary(s, p) /\ u >= 2 /\ a > p + u
          /\ RunLen(s, a, DigitSet) >= 4 /\ Boundary(s, a + 4)
       THEN << a + 4, SubSeq(s, p, p + u - 1) >>
       ELSE << >>

\* re.finditer(pattern, text): the groups of the non-overlapping matches, left
\* to right, from position p on
RECURSIVE FindIter(_, _, _)
FindIter(kind, s, p) ==
  LET hits == { q \in p..Len(s) : MatchAt(kind, s, q) # << >> }
  IN IF hits = {} THEN << >>
     ELSE LET m == MatchAt(kind, s, Min(hits))
          IN << m[2] >> \o FindIter(kind, s, m[1])

\* lines 380-383: strip, and drop what is clearly no conference name
RECURSIVE KeepNames(_)
KeepNames(groups) ==
  IF groups = << >> THEN << >>
  ELSE LET conf_name == Strip(Head(groups))
       IN (IF conf_name # "" /\ Len(conf_name) > 2 /\ ~IsDigit(conf_name)
           THEN << conf_name >> ELSE << >>) \o KeepNames(Tail(groups))

RECURSIVE ExtractFrom(_, _)
ExtractFrom(text, kind) ==
  IF kind > 9 THEN << >>
  ELSE KeepNames(FindIter(kind, text, 1)) \o ExtractFrom(text, kind + 1)

extract_conference_name(text) == ExtractFrom(text, 1)

(***************************************************************************)
(* Cells of the pandas tables: a str, NaN (an empty cell) or a number.     *)
(***************************************************************************)
StrCell(v) == [k |-> "str", v |-> v]
NumCell(v) == [k |-> "num", v |-> v]     \* v: what str() prints for it
NaN == [k |-> "nan", v |-> "nan"]

\* pd.isna(cell)
IsNa(cell) == cell.k = "nan"

\* cell.strip() raises AttributeError unless the cell is a str
CanStrip(cell) == cell.k = "str"

\* str(cell)
Str(cell) == cell.v

(***************************************************************************)
(* first_analysis: the lookup tables.                                      *)
(* A dict whose order is read (journal_fullnames, journal_categories) is a *)
(* sequence in insertion order; assigning to a key it has keeps the key's  *)
(* place.                                                                  *)
(***************************************************************************)
\* d[key] = value on an insertion-ordered dict of <<key, value>> pairs
Put(d, key, value) ==
  IF HasKey(d, key)
  THEN [k \in DOMAIN d |-> IF d[k][1] = key THEN << key, value >> ELSE d[k]]
  ELSE Append(d, << key, value >>)

\* d[key] = value on a dict whose order is never read
Set(f, key, value) ==
  [x \in (DOMAIN f) \cup {key} |-> IF x = key THEN value ELSE f[x]]

\* lines 213-220 with every conference left unranked
default_conference_level_unranked(conf_name) == ""

\* lines 213-220
default_conference_level(conf_name) ==
  IF conf_name \in ccf_a_conferences THEN "A"
  ELSE IF conf_name \in ccf_b_conferences THEN "B"
  ELSE IF conf_name \in ccf_c_conferences THEN "C"
  ELSE ""

\* lines 236-241: the level a reference row is stored with
row_level(cols, r) ==
  IF "Level" \in cols /\ ~IsNa(r.lv)
  THEN (IF Strip(Str(r.lv)) \in {"A", "B", "C"} THEN Strip(Str(r.lv)) ELSE "")
  ELSE ""

\* line 234
row_type(cols, r) ==
  IF "Type" \in cols /\ ~IsNa(r.ty) THEN Strip(Str(r.ty)) ELSE "Unknown"

\* lines 232-239 with row.get(column) semantics: a missing column raises
\* nothing
row_error_lenient(cols, r) ==
  IF "Journal Name" \in cols /\ ~CanStrip(r.jn) THEN "AttributeError"
  ELSE IF "Full Name of the Journal" \in cols /\ ~CanStrip(r.fn)
  THEN "AttributeError"
  ELSE IF "Type" \in cols /\ ~IsNa(r.ty) /\ ~CanStrip(r.ty) THEN "AttributeError"
  ELSE IF "Level" \in cols /\ ~IsNa(r.lv) /\ ~CanStrip(r.lv) THEN "AttributeError"
  ELSE ""

\* lines 232-239: the exception one reference row raises, "" when none
row_error(cols, r) ==
  IF "Journal Name" \notin cols THEN "KeyError"
  ELSE IF ~CanStrip(r.jn) THEN "AttributeError"
  ELSE IF "Full Name of the Journal" \notin cols THEN "KeyError"
  ELSE IF ~CanStrip(r.fn) THEN "AttributeError"
  ELSE IF "Type" \in cols /\ ~IsNa(r.ty) /\ ~CanStrip(r.ty) THEN "AttributeError"
  ELSE IF "Level" \in cols /\ ~IsNa(r.lv) /\ ~CanStrip(r.lv) THEN "AttributeError"
  ELSE ""

\* lines 232-246, one reference row indexed into the tables
\* t = [fullnames, categories, types, levels]
index_row(t, cols, r) ==
  [ fullnames |-> Put(t.fullnames, Strip(Str(r.jn)), Strip(Str(r.fn))),
    categories |-> Put(t.categories, Strip(Str(r.fn)), Strip(Str(r.fn))),
    types |-> Set(t.types, Strip(Str(r.fn)), row_type(cols, r)),
    levels |-> Set(t.levels, Strip(Str(r.fn)), row_level(cols, r)) ]

\* lines 254-262 without the tests of lines 256 and 261: the static pair
\* overwrites what the reference rows defined
merge_pair_overwriting(t, pair) ==
  [ categories |-> Put(t.categories, pair[2], pair[2]),
    types |-> Set(t.types, pair[2], "Conference"),
    levels |-> Set(t.levels, pair[2], default_conference_level(pair[2])),
    fullnames |-> Put(t.fullnames, pair[1], pair[2]) ]

\* lines 254-262 without lines 258-259: the static pair is added to the
\* name tables only, its type and level are not stored
merge_pair_untyped(t, pair) ==
  IF HasKey(t.categories, pair[2]) THEN t
  ELSE [ categories |-> Put(t.categories, pair[2], pair[2]),
         types |-> t.types,
         levels |-> t.levels,
         fullnames |-> IF HasKey(t.fullnames, pair[1]) THEN t.fullnames
                       ELSE Put(t.fullnames, pair[1], pair[2]) ]

\* lines 254-262, one pair of CONFERENCE_MAPPINGS merged into the tables
merge_pair(t, pair) ==
  LET abbr == pair[1]
      fullname == pair[2]
  IN IF HasKey(t.categories, fullname) THEN t
     ELSE [ categories |-> Put(t.categories, fullname, fullname),
            types |-> Set(t.types, fullname, "Conference"),
            levels |-> Set(t.levels, fullname, default_conference_level(fullname)),
            fullnames |-> IF HasKey(t.fullnames, abbr) THEN t.fullnames
                          ELSE Put(t.fullnames, abbr, fullname) ]

RECURSIVE merge_from(_, _)
merge_from(t, k) ==
  IF k > Len(CONFERENCE_MAPPINGS) THEN t
  ELSE merge_from(merge_pair(t, CONFERENCE_MAPPINGS[k]), k + 1)

\* the whole loop of lines 255-262
merge_static(t) == merge_from(t, 1)

(***************************************************************************)
(* first_analysis: the three tiers of one row.                             *)
(***************************************************************************)
First(S) == IF S = {} THEN 0 ELSE Min(S)

\* lines 401-406: index in journal_categories of the first full name that
\* is_exact_match accepts, 0 when none
tier1(subject, categories) ==
  First({ k \in DOMAIN categories : is_exact_match(subject, categories[k][1]) })

\* line 416: [({\[]?\bshort\b[)}\]]? finds a match exactly when \bshort\b does
short_exact(subject, short_name) ==
  WordSearch(subject, ReLiteral(ReEscape(short_name)))

\* line 422
short_year(subject, short_name) ==
  WordYearSearch(subject, ReLiteral(ReEscape(short_name)))

\* line 412 without isupper()
short_considered_any_case(subject, short_name) == In(short_name, subject)

\* line 412
short_considered(subject, short_name) ==
  IsUpper(short_name) /\ In(short_name, subject)

\* lines 410-426: index in journal_fullnames of the first pair that matches
tier2(subject, fullnames) ==
  First({ k \in DOMAIN fullnames :
            /\ short_considered(subject, fullnames[k][1])
            /\ \/ short_exact(subject, fullnames[k][1])
               \/ short_year(subject, fullnames[k][1]) })

\* lines 445-447
abbr_hit(conf_name, abbr) ==
  \/ WordSearchCI(conf_name, ReLiteral(ReEscape(abbr)))
  \/ WordYearSearchCI(conf_name, ReLiteral(ReEscape(abbr)))
  \/ StartsWith(conf_name, abbr)

\* lines 434-451 with the scan of the abbreviations (442-451) before the test
\* for an exact key (434-438)
candidate_match_abbr_first(conf_name) ==
  LET k == First({ k \in DOMAIN CONFERENCE_MAPPINGS :
                     abbr_hit(conf_name, CONFERENCE_MAPPINGS[k][1]) })
  IN IF k # 0 THEN << CONFERENCE_MAPPINGS[k][2], "Conference Abbr Match" >>
     ELSE IF HasKey(CONFERENCE_MAPPINGS, conf_name)
     THEN << Get(CONFERENCE_MAPPINGS, conf_name), "Conference Name Match" >>
     ELSE << >>

\* lines 434-451 for one candidate: << publication, match type >> or << >>
candidate_match(conf_name) ==
  IF HasKey(CONFERENCE_MAPPINGS, conf_name)
  THEN << Get(CONFERENCE_MAPPINGS, conf_name), "Conference Name Match" >>
  ELSE LET k == First({ k \in DOMAIN CONFERENCE_MAPPINGS :
                          abbr_hit(conf_name, CONFERENCE_MAPPINGS[k][1]) })
       IN IF k = 0 THEN << >>
          ELSE << CONFERENCE_MAPPINGS[k][2], "Conference Abbr Match" >>

\* lines 432-454: the candidates are tried in extraction order and the loop
\* breaks at the first one that matches; 0 when none does
first_candidate(conf_names) ==
  First({ c \in DOMAIN conf_names : candidate_match(conf_names[c]) # << >> })

candidate_at(conf_names, c) ==
  IF c = 0 THEN << >> ELSE candidate_match(conf_names[c])

tier3_of(conf_names) == candidate_at(conf_names, first_candidate(conf_names))

\* lines 429-454
tier3(subject) == tier3_of(extract_conference_name(subject))

\* lines 396-454 with the short names tried before the full names
resolve_with_short_first(subject, categories, fullnames, k1, k2) ==
  IF k2 # 0
  THEN << fullnames[k2][2],
          IF short_exact(subject, fullnames[k2][1])
          THEN "Exact Short Name" ELSE "Short Name with Year" >>
  ELSE IF k1 # 0 THEN << categories[k1][1], "Exact Full Name" >>
  ELSE tier3(subject)

\* lines 396-454 once tier 1 gave index k1 and tier 2 index k2 (0: nothing):
\* << matched_publication, match_type >>, << >> when unmatched
resolve_with(subject, categories, fullnames, k1, k2) ==
  IF k1 # 0 THEN << categories[k1][1], "Exact Full Name" >>
  ELSE IF k2 # 0
  THEN << fullnames[k2][2],
          IF short_exact(subject, fullnames[k2][1])
          THEN "Exact Short Name" ELSE "Short Name with Year" >>
  ELSE tier3(subject)

\* lines 396-454: the three tiers in order
resolve(subject, categories, fullnames) ==
  resolve_with(subject, categories, fullnames,
               tier1(subject, categories), tier2(subject, fullnames))

\* a pattern built for this row does not compile (re.error): the names whose
\* patterns lines 280, 304-327 and 416-422 build before the row is decided
raises_with(subject, categories, fullnames, k1, k2) ==
  \/ \E k \in 1..(IF k1 = 0 THEN Len(categories) ELSE k1) :
       /\ \/ categories[k][1] \in special_journals
          \/ In(Lower(categories[k][1]), Lower(subject))
       /\ ~ReCompiles(ReEscape(categories[k][1]))
  \/ /\ k1 = 0
     /\ \E k \in 1..(IF k2 = 0 THEN Len(fullnames) ELSE k2) :
          /\ short_considered(subject, fullnames[k][1])
          /\ ~ReCompiles(ReEscape(fullnames[k][1]))

resolve_raises(subject, categories, fullnames) ==
  raises_with(subject, categories, fullnames,
              tier1(subject, categories), tier2(subject, fullnames))

\* dict.get(key, default)
GetOr(f, key, default) == IF key \in DOMAIN f THEN f[key] ELSE default

(***************************************************************************)
(* prepare_mapping_data: the keyword dictionary.                           *)
(***************************************************************************)
\* s.split(','): the pieces between the commas, from position i on
RECURSIVE SplitFrom(_, _)
SplitFrom(s, i) ==
  LET commas == { j \in i..Len(s) : Ch(s, j) = "," }
  IN IF commas = {} THEN << SubSeq(s, i, Len(s)) >>
     ELSE << SubSeq(s, i, Min(commas) - 1) >> \o SplitFrom(s, Min(commas) + 1)

RECURSIVE StripAll(_)
StripAll(parts) ==
  IF parts = << >> THEN << >>
  ELSE (IF Strip(Head(parts)) # "" THEN << Strip(Head(parts)) >> ELSE << >>)
         \o StripAll(Tail(parts))

\* lines 120 / 136: [kw.strip() for kw in str(cell).split(',') if kw.strip()]
keyword_list(cell) == StripAll(SplitFrom(Str(cell), 1))

\* lines 116-127 / 132-143 for the rows from k on, `col` the keyword column;
\* kws is the dict so far, as <<journal name, list>> pairs
RECURSIVE collect_keywords(_, _, _, _)
collect_keywords(rows, k, col, kws) ==
  IF k > Len(rows) THEN kws
  ELSE LET r == rows[k]
           cell == IF col = "keyword-English" THEN r.en ELSE r.zh
           journal_name == Strip(Str(r.fn))
           list == keyword_list(cell)
       IN IF ~IsNa(r.fn) /\ ~IsNa(cell) /\ list # << >>
          THEN collect_keywords(rows, k + 1, col,
                 Put(kws, journal_name,
                     IF HasKey(kws, journal_name)
                     THEN Get(kws, journal_name) \o list ELSE list))
          ELSE collect_keywords(rows, k + 1, col, kws)

\* lines 147-149: the default keywords, the lower-cased abbreviations
default_keywords ==
  [k \in DOMAIN CONFERENCE_MAPPINGS |->
     << CONFERENCE_MAPPINGS[k][2], << Lower(CONFERENCE_MAPPINGS[k][1]) >> >>]

\* the column lines 113-145 read the keywords from, "" for the else branch
keyword_column(kwdf) ==
  IF "Full Name of the Journal" \in kwdf.cols /\ "keyword-English" \in kwdf.cols
  THEN "keyword-English"
  ELSE IF "Full Name of the Journal" \in kwdf.cols /\ "keyword-Chinese" \in kwdf.cols
  THEN "keyword-Chinese"
  ELSE ""

\* lines 109-149: the dict before deduplication
raw_keywords(kwdf) ==
  IF keyword_column(kwdf) = "" THEN default_keywords
  ELSE collect_keywords(kwdf.rows, 1, keyword_column(kwdf), << >>)

\* lines 118 / 134: .strip() on a journal-name cell that is no str
keywords_error(kwdf) ==
  IF /\ keyword_column(kwdf) # ""
     /\ \E k \in DOMAIN kwdf.rows :
          LET r == kwdf.rows[k]
              cell == IF keyword_column(kwdf) = "keyword-English" THEN r.en ELSE r.zh
          IN ~IsNa(r.fn) /\ ~IsNa(cell) /\ ~CanStrip(r.fn)
  THEN "AttributeError" ELSE ""

Range(q) == { q[k] : k \in DOMAIN q }

\* the lists without repetition over the elements of S: list(set(...)) keeps
\* every element once, in an order the hash of the strings decides
Orders(S) == { q \in [1..Cardinality(S) -> S] : Range(q) = S }

\* lines 152-153 for the entries of raw from k on: the dicts that
\* list(set(...)) may leave
RECURSIVE deduplicated_from(_, _)
deduplicated_from(raw, k) ==
  IF k > Len(raw) THEN { << >> }
  ELSE { Set(f, raw[k][1], q) :
           f \in deduplicated_from(raw, k + 1), q \in Orders(Range(raw[k][2])) }

deduplicated(raw) == deduplicated_from(raw, 1)

(***************************************************************************)
(* second_analysis: the keywords of one result row.                        *)
(***************************************************************************)
\* lines 503-504 without re.IGNORECASE
keyword_hit_cased(title, keyword) ==
  WordSearch(title, ReLiteral(ReEscape(keyword)))

\* lines 503-504
keyword_hit(title, keyword) ==
  WordSearchCI(title, ReLiteral(ReEscape(keyword)))

\* lines 501-505: the keywords of the list that hit, in list order
RECURSIVE hits_of(_, _)
hits_of(title, list) ==
  IF list = << >> THEN << >>
  ELSE (IF keyword_hit(title, Head(list)) THEN << Head(list) >> ELSE << >>)
         \o hits_of(title, Tail(list))

\* ', '.join(hits)
RECURSIVE Join(_)
Join(hits) ==
  IF hits = << >> THEN ""
  ELSE IF Len(hits) = 1 THEN hits[1]
  ELSE hits[1] \o ", " \o Join(Tail(hits))

\* lines 494-509: the Keywords_Hit cell of a row with publication pub
keywords_hit(title, pub, kws) ==
  IF pub \in DOMAIN kws THEN Join(hits_of(title, kws[pub])) ELSE ""

\* line 503: a keyword whose pattern does not compile
score_raises(pub, kws) ==
  /\ pub \in DOMAIN kws
  /\ \E k \in DOMAIN kws[pub] : ~ReCompiles("\\b" \o ReEscape(kws[pub][k]) \o "\\b")

(***************************************************************************)
(* The inputs.                                                             *)
(***************************************************************************)
AllPubCols == { "Journal Name", "Full Name of the Journal", "Type", "Level" }

RefRow(jn, fn, ty, lv) == [jn |-> jn, fn |-> fn, ty |-> ty, lv |-> lv]

\* the label row under the column header, which line 229 skips
LabelRow ==
  RefRow(StrCell("Name"), StrCell("Full name"), StrCell("Type"), StrCell("Level"))

RowML ==
  RefRow(StrCell(" ML "), StrCell("Machine Learning "), StrCell("Journal"),
         StrCell("B"))
RowNN ==
  RefRow(StrCell("NN"), StrCell("Neural Networks"), NaN, StrCell("S"))
RowICML ==
  RefRow(StrCell("ICML"), StrCell("International Conference on Machine Learning"),
         StrCell(" Meeting "), StrCell(" C "))
RowCVPR ==
  RefRow(StrCell("CVPR"), StrCell("Computer Vision Letters"), StrCell("Journal"),
         StrCell("a"))
RowTPAMI ==
  RefRow(StrCell("IEEE TPAMI"),
         StrCell("IEEE Transactions on Pattern Analysis and Machine Intelligence"),
         StrCell("Journal"), StrCell("A"))
RowNeur ==
  RefRow(StrCell("NIPS"),
         StrCell("Annual Conference on Neural Information Processing Systems"),
         StrCell("Conference"), NaN)
RowParen ==
  RefRow(StrCell("PR(A"), StrCell("Pattern Recognition (Series A"),
         StrCell("Journal"), StrCell("1"))
RowNum ==
  RefRow(StrCell("AI"), StrCell("Artificial Intelligence"), StrCell("Journal"),
         NumCell("1"))
RowBlank ==
  RefRow(NaN, StrCell("Artificial Intelligence"), StrCell("Journal"), StrCell("A"))
\* a full-name cell of blanks only
RowSpace ==
  RefRow(StrCell("XX"), StrCell("  "), StrCell("Journal"), StrCell("A"))
\* a type cell that holds the number 1
RowNumType ==
  RefRow(StrCell("KDD"), StrCell("Knowledge Discovery and Data Mining"),
         NumCell("1"), StrCell("A"))

FirstRows == { LabelRow, RowNN }

KwRow(fn, en, zh) == [fn |-> fn, en |-> en, zh |-> zh]

AllKwCols == { "Full Name of the Journal", "keyword-English", "keyword-Chinese" }

KwRowsA ==
  << KwRow(StrCell(" International Joint Conference on Neural Networks"),
           StrCell("ijcnn, neural networks ,ijcnn"), StrCell("IJCNN")),
     KwRow(StrCell("Neural Networks"), StrCell("learning (ml"), NaN),
     KwRow(StrCell("Annual Conference on Neural Information Processing Systems"),
           NaN, StrCell("NeurIPS")),
     KwRow(StrCell("Neural Networks"), StrCell(" , "), NaN),
     KwRow(StrCell("Pattern Recognition (Series A"), StrCell("(series"), NaN) >>

\* the keyword tables of the pipeline: every column, no English column, no
\* journal-name column, no keyword column
KeywordTables ==
  { [cols |-> AllKwCols, rows |-> KwRowsA],
    [cols |-> AllKwCols \ {"keyword-English"}, rows |-> KwRowsA],
    [cols |-> AllKwCols \ {"Full Name of the Journal"}, rows |-> KwRowsA],
    [cols |-> {"Full Name of the Journal"}, rows |-> KwRowsA] }

\* a paper row of a table with ncols columns: title, authors, comments, url
PaperRow(title, subject, ncols) ==
  SubSeq(<< title, StrCell("A. Author"), subject,
            StrCell("https://arxiv.org/abs/2501.00001") >>, 1, ncols)

TitleIJCNN == StrCell("IJCNN: new results")
TitleNN == StrCell("Neural networks for deep learning (ml) models")
TitleBoth == StrCell("Deep learning (ml) with neural networks at IJCNN")

\* << title, comments >> of the paper rows of the pipeline
PaperCells ==
  { << TitleIJCNN, StrCell("Accepted at NeurIPS 2023") >>,
    << TitleNN, StrCell("Under review") >>,
    << TitleIJCNN, StrCell("Comments: Accepted at NeurIPS 2023") >>,
    << TitleIJCNN, StrCell("Comments: IJCNN 2025") >>,
    << TitleBoth, StrCell("Comments: Published in Neural Networks; IJCNN 2025") >> }

PaperRows(ncols) == { PaperRow(c[1], c[2], ncols) : c \in PaperCells }

PipelineRefRows == { RowNN, RowNeur, RowNum }

\* the shapes of the two input tables: the columns of the reference table
\* and the number of columns of the paper table
Shapes ==
  { [pub_cols |-> AllPubCols, ncols |-> 4],
    [pub_cols |-> AllPubCols \ {"Journal Name"}, ncols |-> 4],
    [pub_cols |-> AllPubCols \ {"Full Name of the Journal"}, ncols |-> 4],
    [pub_cols |-> AllPubCols, ncols |-> 3],
    [pub_cols |-> AllPubCols, ncols |-> 2] }

\* how many reference rows follow the label row, how many paper rows are read
MaxRefRows == 1
MaxPapers == 2

(***************************************************************************)
(* The run of main(): prepare_mapping_data, first_analysis, second_analysis *)
(***************************************************************************)
VARIABLES
  pc,                 \* where main() is
  err,                \* the exception that ended the run, "" when none
  pub_cols,           \* publication_df.columns
  df_ncols,           \* number of columns of paper_df
  publication_df,     \* the reference rows read so far
  keywords_df,        \* the keyword table
  keywords,           \* journal name -> keyword list
  journal_fullnames,  \* short name -> full name, in insertion order
  journal_categories, \* full name -> full name, in insertion order
  journal_types,      \* full name -> type
  journal_levels,     \* full name -> level
  df,                 \* the paper rows read so far
  matches,            \* first_analysis: the matched records
  result_df,          \* second_analysis: the records with Keywords_Hit
  scored              \* rows of result_df that second_analysis has visited

vars == << pc, err, pub_cols, df_ncols, publication_df, keywords_df, keywords,
           journal_fullnames, journal_categories, journal_types, journal_levels,
           df, matches, result_df, scored >>

tables == << journal_fullnames, journal_categories, journal_types, journal_levels >>
inputs == << pub_cols, df_ncols >>
analysis == << df, matches, result_df, scored >>

NoTable == << >>

Init ==
  /\ pc = "prepare"
  /\ err = ""
  /\ \E shape \in Shapes : pub_cols = shape.pub_cols /\ df_ncols = shape.ncols
  /\ publication_df = << >>
  /\ keywords_df = NoTable
  /\ keywords = << >>
  /\ journal_fullnames = << >>
  /\ journal_categories = << >>
  /\ journal_types = << >>
  /\ journal_levels = << >>
  /\ df = << >>
  /\ matches = << >>
  /\ result_df = << >>
  /\ scored = 0

\* main(): an exception ends the run (traceback, return)
Fail(e) == pc' = "failed" /\ err' = e

\* the four lookup tables of first_analysis
Tables ==
  [ fullnames |-> journal_fullnames, categories |-> journal_categories,
    types |-> journal_types, levels |-> journal_levels ]

Store(t) ==
  /\ journal_fullnames' = t.fullnames
  /\ journal_categories' = t.categories
  /\ journal_types' = t.types
  /\ journal_levels' = t.levels

\* prepare_mapping_data (lines 94-157) on one of the keyword tables
PrepareMappingData(KwTables) ==
  /\ pc = "prepare"
  /\ \E kwdf \in KwTables :
       /\ keywords_df' = kwdf
       /\ IF keywords_error(kwdf) # ""
          THEN Fail(keywords_error(kwdf)) /\ UNCHANGED keywords
          ELSE /\ keywords' \in deduplicated(raw_keywords(kwdf))
               /\ pc' = "index"
               /\ err' = err
  /\ UNCHANGED << inputs, publication_df, tables, analysis >>

\* first_analysis, lines 227-246: one iteration of the loop over the
\* reference rows; the first row is skipped
IndexRow(First1, Rows, max) ==
  /\ pc = "index"
  /\ Len(publication_df) <= max
  /\ \E r \in (IF publication_df = << >> THEN First1 ELSE Rows) :
       /\ publication_df' = Append(publication_df, r)
       /\ IF publication_df = << >>
          THEN UNCHANGED << pc, err, tables >>
          ELSE IF row_error(pub_cols, r) # ""
          THEN Fail(row_error(pub_cols, r)) /\ UNCHANGED tables
          ELSE /\ Store(index_row(Tables, pub_cols, r))
               /\ UNCHANGED << pc, err >>
  /\ UNCHANGED << inputs, keywords_df, keywords, analysis >>

\* first_analysis, lines 254-262: the reference rows are exhausted and the
\* static table is merged in
MergeStatic ==
  /\ pc = "index"
  /\ Store(merge_static(Tables))
  /\ pc' = "resolve"
  /\ UNCHANGED << err, inputs, publication_df, keywords_df, keywords, analysis >>

\* lines 390-392: str(row.iloc[j]) if len(row) > j else ""
Field(r, j) == IF Len(r) > j THEN Str(r[j + 1]) ELSE ""

\* lines 462-470: the record of a matched row
MatchRecord(r, m) ==
  [ Title |-> Field(r, 0),
    Subject |-> Field(r, 2),
    URL |-> Field(r, 3),
    Publication |-> m[1],
    Publication_Type |-> GetOr(journal_types, m[1], "Unknown"),
    Publication_Level |-> GetOr(journal_levels, m[1], ""),
    Match_Type |-> m[2] ]

\* line 395 left out: every row is analysed
eligible_always(subject) == TRUE

\* line 395
eligible(subject) == In("Comments", subject)

\* lines 456-470 with a memory of the venues already recorded: a venue is
\* recorded once
Record_once(r, m) ==
  matches' = IF m # << >> /\ \A j \in DOMAIN matches : matches[j].Publication # m[1]
             THEN Append(matches, MatchRecord(r, m)) ELSE matches

\* lines 456-470: the outcome m of the tiers is recorded
Record(r, m) ==
  matches' = IF m # << >> THEN Append(matches, MatchRecord(r, m)) ELSE matches

\* lines 395-470 for a row whose tier 1 gave k1 and whose tier 2 gave k2
Analyse(r, subject, k1, k2) ==
  IF ~eligible(subject)
  THEN UNCHANGED << pc, err, matches >>
  ELSE IF raises_with(subject, journal_categories, journal_fullnames, k1, k2)
  THEN Fail("re.error") /\ UNCHANGED matches
  ELSE /\ Record(r, resolve_with(subject, journal_categories,
                                 journal_fullnames, k1, k2))
       /\ UNCHANGED << pc, err >>

\* first_analysis, lines 388-470: one iteration of the loop over the papers
ResolveRow(Rows, max) ==
  /\ pc = "resolve"
  /\ Len(df) < max
  /\ \E r \in Rows :
       /\ df' = Append(df, r)
       /\ Analyse(r, Field(r, 2),
                  tier1(Field(r, 2), journal_categories),
                  tier2(Field(r, 2), journal_fullnames))
  /\ UNCHANGED << inputs, publication_df, keywords_df, keywords, tables,
                  result_df, scored >>

\* lines 472-477 and 490-491: the papers are exhausted; result_df is built
\* and, unless empty, gets the column Keywords_Hit
StartSecond ==
  /\ pc = "resolve"
  /\ result_df' = [ j \in DOMAIN matches |->
                      [ Title |-> matches[j].Title,
                        Subject |-> matches[j].Subject,
                        URL |-> matches[j].URL,
                        Publication |-> matches[j].Publication,
                        Publication_Type |-> matches[j].Publication_Type,
                        Publication_Level |-> matches[j].Publication_Level,
                        Match_Type |-> matches[j].Match_Type,
                        Keywords_Hit |-> "" ] ]
  /\ pc' = "score"
  /\ UNCHANGED << err, inputs, publication_df, keywords_df, keywords, tables,
                  df, matches, scored >>

\* second_analysis, lines 493-509: one iteration of the loop over result_df
ScoreRow ==
  /\ pc = "score"
  /\ scored < Len(result_df)
  /\ LET r == result_df[scored + 1]
     IN IF score_raises(r.Publication, keywords)
        THEN Fail("re.error") /\ UNCHANGED result_df
        ELSE /\ result_df' =
                  [ result_df EXCEPT ![scored + 1].Keywords_Hit =
                      keywords_hit(r.Title, r.Publication, keywords) ]
             /\ UNCHANGED << pc, err >>
  /\ scored' = scored + 1
  /\ UNCHANGED << inputs, publication_df, keywords_df, keywords, tables,
                  df, matches >>

\* line 511 and the rest of main(): the report
Finish ==
  /\ pc = "score"
  /\ scored = Len(result_df)
  /\ pc' = "done"
  /\ UNCHANGED << err, inputs, publication_df, keywords_df, keywords, tables,
                  analysis >>

Next ==
  \/ PrepareMappingData(KeywordTables)
  \/ IndexRow(FirstRows, PipelineRefRows, MaxRefRows)
  \/ MergeStatic
  \/ ResolveRow(PaperRows(df_ncols), MaxPapers)
  \/ StartSecond
  \/ ScoreRow
  \/ Finish

Spec == Init /\ [][Next]_vars

(***************************************************************************)
(* Catalogue construction alone, over a wider set of reference rows.       *)
(***************************************************************************)
\* the well-shaped inputs: every reference column, four paper columns
InitShaped == Init /\ pub_cols = AllPubCols /\ df_ncols = 4

CatalogRows ==
  { RowML, RowNN, RowICML, RowCVPR, RowTPAMI, RowNeur, RowParen, RowNum,
    RowBlank, RowNumType }

CatalogKeywordTables == { [cols |-> AllKwCols, rows |-> KwRowsA] }

\* how many reference rows follow the first one
MaxCatalogRows == 2

NextCatalog ==
  \/ PrepareMappingData(CatalogKeywordTables)
  \/ IndexRow(FirstRows, CatalogRows, MaxCatalogRows)
  \/ MergeStatic

SpecCatalog == InitShaped /\ [][NextCatalog]_vars

(***************************************************************************)
(* Resolution and scoring of single rows, over a wider set of texts.       *)
(***************************************************************************)
ResolveRefRows == { RowNN, RowParen, RowCVPR, RowNum }

TitleMeta == StrCell("Pattern recognition(series A) [v2] in c++ *")

\* << title, comments >>
ResolveCells ==
  { << TitleIJCNN, StrCell("Accepted at NeurIPS 2023") >>,
    << TitleNN, StrCell("comments: Published in Neural Networks (NN)") >>,
    << TitleIJCNN, StrCell("Comments: Accepted at NeurIPS 2023") >>,
    << TitleIJCNN, StrCell("Comments: Accepted at NeurIPS 2023 (CVPR)") >>,
    << TitleIJCNN, StrCell("Comments: NeurIPS 2023") >>,
    << TitleIJCNN, StrCell("Comments: Accepted at the International Conference on Machine Learning (ICML 2024)") >>,
    << TitleNN, StrCell("Comments: Published in Neural Networks; CVPR 2024 workshop") >>,
    << TitleIJCNN, StrCell("Comments: To appear at CVPR2025") >>,
    << TitleIJCNN, StrCell("Comments: IJCNN2025 and (CVPR)") >>,
    << TitleIJCNN, StrCell("Comments: ACL 2024 Findings; also CVPR2025") >>,
    << TitleNN, StrCell("Comments: International Conference on Neural Networks") >>,
    << TitleNN, StrCell("Comments: Accepted to Neural Networks journal") >>,
    << TitleNN, StrCell("Comments: Workshop on Neural Networks; published in Neural Networks") >>,
    << TitleNN, StrCell("Comments: Symposium on  AI; Journal of Artificial Intelligence") >>,
    << TitleMeta, StrCell("Comments: Published in Pattern Recognition (Series A, 2024") >>,
    << TitleMeta, StrCell("Comments: (PR(A) [a+b]* c++ \\d{4} ((") >>,
    << TitleIJCNN, StrCell("Comments: Under review") >>,
    << StrCell(""), StrCell("Comments") >>,
    << TitleIJCNN, StrCell("") >>,
    << NaN, NaN >> }

ResolveRows == { PaperRow(c[1], c[2], 4) : c \in ResolveCells }

\* how many paper rows are read
MaxTexts == 1

NextResolve ==
  \/ PrepareMappingData(CatalogKeywordTables)
  \/ IndexRow({LabelRow}, ResolveRefRows, MaxRefRows)
  \/ MergeStatic
  \/ ResolveRow(ResolveRows, MaxTexts)
  \/ StartSecond
  \/ ScoreRow
  \/ Finish

SpecResolve == InitShaped /\ [][NextResolve]_vars

(***************************************************************************)
(* Resolution against catalogues of up to two reference rows whose names   *)
(* contain one another, hold a blank, or are blank.                        *)
(***************************************************************************)
VenueRefRows == { RowML, RowICML, RowTPAMI, RowSpace }

\* << title, comments >>
VenueCells ==
  { << TitleIJCNN, StrCell("Comments: Accepted at the International Conference on Machine Learning (ICML 2024)") >>,
    << TitleIJCNN, StrCell("Comments: International Conference on Machine Learning") >>,
    << TitleIJCNN, StrCell("Comments: accepted by IEEE TPAMI 2024") >>,
    << TitleIJCNN, StrCell("Comments: Accepted at NeurIPS.") >>,
    << TitleIJCNN, StrCell("Comments: Accepted at NeurIPS and emnlp 2023") >>,
    << TitleIJCNN, StrCell("Comments: accepted to naacl 2022, Accepted at NeurIPS.") >>,
    << TitleIJCNN, StrCell("Comments: Under review") >>,
    << TitleIJCNN, StrCell("Under review at ICML") >> }

VenueRows == { PaperRow(c[1], c[2], 4) : c \in VenueCells }

\* how many reference rows follow the label row, how many paper rows are read
MaxVenueRows == 2
MaxVenueTexts == 1

NextVenues ==
  \/ PrepareMappingData(CatalogKeywordTables)
  \/ IndexRow({LabelRow}, VenueRefRows, MaxVenueRows)
  \/ MergeStatic
  \/ ResolveRow(VenueRows, MaxVenueTexts)
  \/ StartSecond
  \/ ScoreRow
  \/ Finish

SpecVenues == InitShaped /\ [][NextVenues]_vars

(***************************************************************************)
(* The vocabulary of the properties.                                       *)
(***************************************************************************)
\* the comments texts of the paper rows read so far
Subjects(rows) == [k \in DOMAIN rows |-> Field(rows[k], 2)]

\* the last paper row read and its comments text
LastRow == df[Len(df)]
LastSubject == Field(LastRow, 2)

\* the last record of first_analysis
LastMatch == matches[Len(matches)]

\* a step of the loop of line 388: one more paper row is read
ReadsRow == pc = "resolve" /\ Len(df') = Len(df) + 1

\* the comments text of the row that step reads
NewSubject == Field(df'[Len(df')], 2)

\* that step adds no record / adds one record
NoRecord == matches' = matches
OneRecord ==
  /\ Len(matches') = Len(matches) + 1
  /\ SubSeq(matches', 1, Len(matches)) = matches

NewMatch == matches'[Len(matches')]

\* the catalogue full names is_exact_match accepts for the text s
FullNameHits(s) ==
  { k \in DOMAIN journal_categories :
      is_exact_match(s, journal_categories[k][1]) }

\* the short name occurs in s as a word of its own / with a 4-digit year
\* attached, the two as one word
WordOfItsOwn(s, short_name) == WordSearch(s, short_name)
WordWithYear(s, short_name) == WordYearSearch(s, short_name)

\* the pairs of the short-name table whose short name passes isupper() and
\* occurs in s in one of the two ways
UpperShortNameHits(s) ==
  { k \in DOMAIN journal_fullnames :
      /\ IsUpper(journal_fullnames[k][1])
      /\ \/ WordOfItsOwn(s, journal_fullnames[k][1])
         \/ WordWithYear(s, journal_fullnames[k][1]) }

\* the same without the test of isupper()
AnyShortNameHits(s) ==
  { k \in DOMAIN journal_fullnames :
      \/ WordOfItsOwn(s, journal_fullnames[k][1])
      \/ WordWithYear(s, journal_fullnames[k][1]) }

FullNameTypes == { "Exact Full Name" }
ShortNameTypes == { "Exact Short Name", "Short Name with Year" }
ExtractedTypes == { "Conference Name Match", "Conference Abbr Match" }

NeurIPSFullName == Get(CONFERENCE_MAPPINGS, "NeurIPS")
CVPRFullName == Get(CONFERENCE_MAPPINGS, "CVPR")
IJCNNFullName == Get(CONFERENCE_MAPPINGS, "IJCNN")

\* a reference row after the first one names this full name
RefDefines(fullname) ==
  \E k \in 2..Len(publication_df) :
    Strip(Str(publication_df[k].fn)) = fullname

(***************************************************************************)
(* C1                                                                      *)
(***************************************************************************)
\* C1: reading a paper row whose comments text does not contain the
\* substring "Comments" (case-sensitive) adds no record to the matches and
\* raises nothing, whatever the catalogue holds and whatever venue names or
\* abbreviations the text holds.
C1_NoCommentsNoMatch ==
  [][ (ReadsRow /\ ~In("Comments", NewSubject)) =>
        (NoRecord /\ pc' = "resolve") ]_vars

\* a text with a lower-case "comments" that names a venue of the catalogue,
\* in the form Tier 1 accepts, has been read and left no record
C1_Witness ==
  /\ df # << >>
  /\ LastSubject = "comments: Published in Neural Networks (NN)"
  /\ HasKey(journal_categories, "Neural Networks")
  /\ is_exact_match(LastSubject, "Neural Networks")
  /\ matches = << >>
  /\ pc = "resolve"

(***************************************************************************)
(* C2                                                                      *)
(***************************************************************************)
\* C2: for an eligible row the tiers decide in the order full name, short
\* name, extracted name.  When is_exact_match accepts a catalogue full name,
\* the record names the first such full name with match type "Exact Full
\* Name", even when a short name of another venue occurs in the text; a
\* short-name match type occurs only when no full name is accepted; an
\* extracted-name match type occurs only when neither tier 1 nor tier 2
\* found anything.
C2_TierOrder ==
  [][ (ReadsRow /\ In("Comments", NewSubject)) =>
        /\ NoRecord \/ OneRecord
        /\ FullNameHits(NewSubject) # {} =>
             /\ OneRecord
             /\ NewMatch.Match_Type = "Exact Full Name"
             /\ NewMatch.Publication =
                  journal_categories[Min(FullNameHits(NewSubject))][1]
        /\ (OneRecord /\ NewMatch.Match_Type \in ShortNameTypes) =>
             FullNameHits(NewSubject) = {}
        /\ (OneRecord /\ NewMatch.Match_Type \in ExtractedTypes) =>
             /\ FullNameHits(NewSubject) = {}
             /\ UpperShortNameHits(NewSubject) = {} ]_vars

\* tier 1 decided a text in which the short name of another venue (CVPR)
\* occurs as a word of its own
C2_Witness ==
  /\ df # << >> /\ matches # << >>
  /\ LastSubject = "Comments: Published in Neural Networks; CVPR 2024 workshop"
  /\ LastMatch.Subject = LastSubject
  /\ LastMatch.Publication = "Neural Networks"
  /\ LastMatch.Match_Type = "Exact Full Name"
  /\ \E k \in UpperShortNameHits(LastSubject) :
       journal_fullnames[k][2] = CVPRFullName

AfterPrefix(text, i) ==
  \E prefix \in prefixes : \E g \in 0..5 :
    /\ i - g - Len(prefix) >= 1
    /\ SubSeq(text, i - g - Len(prefix), i - g - 1) = prefix
    /\ \A j \in (i - g)..(i - 1) : Ch(text, j) \in SpaceSet

\* C4 as stated: for a special venue name N, is_exact_match(text, N) is true
\* exactly when some occurrence of N as a standalone word in the text does
\* not come right after "Conference on", "Journal of", "Symposium on" or
\* "Workshop on".
C4_GuardAnyOccurrence ==
  \A k \in DOMAIN df : \A N \in special_journals :
    is_exact_match(Field(df[k], 2), N) <=>
      \E i \in StandaloneStarts(Field(df[k], 2), N) :
        ~AfterPrefix(Field(df[k], 2), i)

\* C4, what the code decides: is_exact_match(text, N) is true exactly when
\* the leftmost occurrence of N as a standalone word exists and does not come
\* right after one of the prefixes; later occurrences are not looked at.
C4_GuardFirstOccurrence ==
  \A k \in DOMAIN df : \A N \in special_journals :
    is_exact_match(Field(df[k], 2), N) <=>
      /\ StandaloneStarts(Field(df[k], 2), N) # {}
      /\ ~AfterPrefix(Field(df[k], 2), Min(StandaloneStarts(Field(df[k], 2), N)))

\* a text whose first "Neural Networks" follows "Workshop on" and whose second
\* one stands free has been analysed against a catalogue with that journal,
\* and tier 1 did not take it
C4_Witness ==
  /\ df # << >>
  /\ LastSubject = "Comments: Workshop on Neural Networks; published in Neural Networks"
  /\ HasKey(journal_categories, "Neural Networks")
  /\ pc = "resolve"
  /\ \A j \in DOMAIN matches : matches[j].Publication # "Neural Networks"

Indexed(k) ==
  /\ k \in 2..Len(publication_df)
  /\ k < Len(publication_df) \/ pc # "failed"

\* no later reference row names the full name of row k again
LastDefinition(k) ==
  \A j \in (k + 1)..Len(publication_df) :
    Strip(Str(publication_df[j].fn)) # Strip(Str(publication_df[k].fn))

\* the level cell is text that reads "A", "B" or "C" once its surrounding
\* blanks are dropped (line 239)
NamesLevel(cell) == cell.k = "str" /\ Strip(cell.v) \in {"A", "B", "C"}

\* C6 as stated: every stored level is one of "A", "B", "C", "", and a
\* reference row (after the first) whose level cell is any other value (the
\* text "S", "a" or "1", the number 1, an empty cell) is stored with level "".
C6_OtherLevelsStoredEmpty ==
  /\ \A fn \in DOMAIN journal_levels : journal_levels[fn] \in {"A", "B", "C", ""}
  /\ \A k \in 2..Len(publication_df) :
       (~NamesLevel(publication_df[k].lv) /\ LastDefinition(k)) =>
         /\ Indexed(k)
         /\ Strip(Str(publication_df[k].fn)) \in DOMAIN journal_levels
         /\ journal_levels[Strip(Str(publication_df[k].fn))] = ""

\* C6, what the code decides: every stored level is one of "A", "B", "C", "";
\* an indexed row is stored with its level text trimmed of blanks when that
\* is "A", "B" or "C" and with "" otherwise (an empty cell included); a level
\* cell that is a number ends the run with AttributeError at that row.
C6_LevelsRestricted ==
  /\ \A fn \in DOMAIN journal_levels : journal_levels[fn] \in {"A", "B", "C", ""}
  /\ \A k \in 2..Len(publication_df) :
       LET r == publication_df[k]
       IN /\ (Indexed(k) /\ LastDefinition(k)) =>
               journal_levels[Strip(Str(r.fn))] =
                 IF NamesLevel(r.lv)
                 THEN Strip(r.lv.v) ELSE ""
          /\ (r.lv.k = "num" /\ r.jn.k = "str" /\ r.fn.k = "str" /\ r.ty.k # "num") =>
               /\ ~Indexed(k)
               /\ pc = "failed" /\ err = "AttributeError"

\* a reference row whose level cell holds the number 1 has been read, and
\* the run has ended with AttributeError without storing the row
C6_Witness ==
  /\ Len(publication_df) >= 2
  /\ publication_df[Len(publication_df)] = RowNum
  /\ pc = "failed" /\ err = "AttributeError"
  /\ "Artificial Intelligence" \notin DOMAIN journal_levels

(***************************************************************************)
(* C7                                                                      *)
(***************************************************************************)
\* the level the three venue sets fix for a full name
NamedLevel(fullname) ==
  IF fullname \in ccf_a_conferences THEN "A"
  ELSE IF fullname \in ccf_b_conferences THEN "B"
  ELSE IF fullname \in ccf_c_conferences THEN "C"
  ELSE ""

\* C7: the merge of the static table.  For every pair (abbr, fullname) of
\* it: if fullname is already a key (a reference row defined it), its type
\* and level stay and the short-name table gets no entry for abbr; otherwise
\* fullname is added with type "Conference" and the level of the three venue
\* sets, and abbr is mapped to fullname only if the short-name table had no
\* entry for abbr.  No mapping of the short-name table and no type or level
\* that was there before the merge is changed by it.
C7_StaticMerge ==
  [][ (pc = "index" /\ pc' = "resolve") =>
        /\ \A k \in DOMAIN CONFERENCE_MAPPINGS :
             LET abbr == CONFERENCE_MAPPINGS[k][1]
                 fullname == CONFERENCE_MAPPINGS[k][2]
             IN IF HasKey(journal_categories, fullname)
                THEN /\ journal_types'[fullname] = journal_types[fullname]
                     /\ journal_levels'[fullname] = journal_levels[fullname]
                     /\ HasKey(journal_fullnames', abbr) <=>
                          HasKey(journal_fullnames, abbr)
                ELSE /\ HasKey(journal_categories', fullname)
                     /\ journal_types'[fullname] = "Conference"
                     /\ journal_levels'[fullname] = NamedLevel(fullname)
                     /\ HasKey(journal_fullnames', abbr)
                     /\ Get(journal_fullnames', abbr) =
                          IF HasKey(journal_fullnames, abbr)
                          THEN Get(journal_fullnames, abbr) ELSE fullname
        /\ \A short_name \in Keys(journal_fullnames) :
             /\ HasKey(journal_fullnames', short_name)
             /\ Get(journal_fullnames', short_name) =
                  Get(journal_fullnames, short_name)
        /\ \A fullname \in DOMAIN journal_types :
             /\ journal_types'[fullname] = journal_types[fullname]
             /\ journal_levels'[fullname] = journal_levels[fullname]
        /\ Keys(journal_categories') =
             Keys(journal_categories) \cup { pair[2] : pair \in Range(CONFERENCE_MAPPINGS) }
        /\ Keys(journal_fullnames') \subseteq
             Keys(journal_fullnames) \cup Keys(CONFERENCE_MAPPINGS) ]_vars

\* the static table has been merged into a catalogue in which reference rows
\* define the full name of ICML (type "Meeting", level "C") and the short
\* name CVPR (for another journal): both are kept, and CVPR's own full name
\* is added beside them
C7_Witness ==
  /\ pc = "resolve"
  /\ publication_df = << LabelRow, RowICML, RowCVPR >>
  /\ journal_types[Get(CONFERENCE_MAPPINGS, "ICML")] = "Meeting"
  /\ journal_levels[Get(CONFERENCE_MAPPINGS, "ICML")] = "C"
  /\ Get(journal_fullnames, "CVPR") = "Computer Vision Letters"
  /\ journal_levels[CVPRFullName] = "A"

(***************************************************************************)
(* C8                                                                      *)
(***************************************************************************)
\* the keyword occurs in the title between two word boundaries (\b), letters
\* compared without their case
StandaloneInTitle(title, keyword) ==
  \E i \in Occ(Lower(title), Lower(keyword)) :
    /\ Boundary(Lower(title), i)
    /\ Boundary(Lower(title), i + Len(keyword))

\* C8: every scored record whose venue has no entry in the keyword table has
\* empty keyword hits; otherwise its Keywords_Hit is the ", "-joined
\* subsequence, in the order of the venue's keyword list, of the keywords of
\* that venue that occur in the title between word boundaries, compared
\* case-insensitively.  A record not yet scored has empty hits.
C8_KeywordHits ==
  \A j \in DOMAIN result_df :
    result_df[j].Keywords_Hit =
      IF j <= scored /\ result_df[j].Publication \in DOMAIN keywords
      THEN Join(SelectSeq(keywords[result_df[j].Publication],
                          LAMBDA keyword :
                            StandaloneInTitle(result_df[j].Title, keyword)))
      ELSE ""

\* a record of IJCNN has been scored against the keyword list << "neural
\* networks", "ijcnn" >>: both hit its title, in the list's order, and the
\* keyword of another venue that the title holds as well is not among them
C8_Witness ==
  /\ pc = "done"
  /\ \E j \in DOMAIN result_df :
       /\ result_df[j].Publication = IJCNNFullName
       /\ result_df[j].Title = "Deep learning (ml) with neural networks at IJCNN"
       /\ keywords[IJCNNFullName] = << "neural networks", "ijcnn" >>
       /\ result_df[j].Keywords_Hit = "neural networks, ijcnn"
       /\ "Neural Networks" \in DOMAIN keywords
       /\ StandaloneInTitle(result_df[j].Title, keywords["Neural Networks"][1])

(***************************************************************************)
(* C9                                                                      *)
(***************************************************************************)
RefColumnsMissing ==
  \/ "Journal Name" \notin pub_cols
  \/ "Full Name of the Journal" \notin pub_cols

KeywordColumnsMissing ==
  /\ keywords_df # NoTable
  /\ \/ "Full Name of the Journal" \notin keywords_df.cols
     \/ {"keyword-English", "keyword-Chinese"} \cap keywords_df.cols = {}

PaperFieldsMissing == df_ncols < 4

\* the keyword table of lines 147-149: each static full name with its
\* abbreviation in lower case
DefaultKeywordTable ==
  [ fullname \in { pair[2] : pair \in Range(CONFERENCE_MAPPINGS) } |->
      << Lower((CHOOSE pair \in Range(CONFERENCE_MAPPINGS) : pair[2] = fullname)[1]) >> ]

C10_ResolutionNeverRaises ==
  /\ pc = "failed" =>
       /\ df = << >> /\ matches = << >> /\ result_df = << >> /\ scored = 0
       /\ err \in {"KeyError", "AttributeError"}
  /\ Len(matches) <= Len(df)
  /\ pc = "done" => (Len(result_df) = Len(matches) /\ scored = Len(result_df))

\* a text with an unbalanced parenthesis has been resolved to a venue whose
\* name holds one, through a pattern built from that name, and scored with a
\* keyword that starts with one
C10_Witness ==
  /\ pc = "done"
  /\ \E j \in DOMAIN result_df :
       /\ result_df[j].Subject = "Comments: Published in Pattern Recognition (Series A, 2024"
       /\ result_df[j].Publication = "Pattern Recognition (Series A"
       /\ result_df[j].Match_Type = "Exact Full Name"
       /\ result_df[j].Keywords_Hit = "(series"

(***************************************************************************)
(* C11                                                                     *)
(***************************************************************************)
\* the outcome of the tiers for one comments text against the catalogue as
\* it stands: << publication, match type >>, << >> for no match
OutcomeAlone(subject) ==
  IF In("Comments", subject)
  THEN resolve(subject, journal_categories, journal_fullnames)
  ELSE << >>

\* C11: from the end of construction on no step changes the short-name
\* table, the full-name tables or the keyword table; and the step that reads
\* a paper row adds the record that the row gives by itself against the
\* catalogue (venue, type, level, match type), or none when the row gives
\* none by itself, whatever rows were read before it; the records of the
\* rows read before stay as they are.
C11_ReadOnlyIndependent ==
  [][ /\ pc \in {"resolve", "score"} =>
           UNCHANGED << journal_fullnames, journal_categories, journal_types,
                        journal_levels, keywords >>
      /\ ReadsRow =>
           \E m \in { OutcomeAlone(NewSubject) } :
             IF m = << >> THEN NoRecord
             ELSE /\ OneRecord
                  /\ NewMatch.Subject = NewSubject
                  /\ NewMatch.Publication = m[1]
                  /\ NewMatch.Match_Type = m[2]
                  /\ NewMatch.Publication_Type = GetOr(journal_types, m[1], "Unknown")
                  /\ NewMatch.Publication_Level = GetOr(journal_levels, m[1], "") ]_vars

\* the same paper row has been read twice in a run and has given the same
\* record both times
C11_Witness ==
  /\ pc = "done"
  /\ Len(df) = 2 /\ df[1] = df[2]
  /\ Len(matches) = 2 /\ matches[1] = matches[2]
  /\ matches[1].Publication = IJCNNFullName

(***************************************************************************)
(* C12                                                                     *)
(***************************************************************************)
MatchTypes == FullNameTypes \cup ShortNameTypes \cup ExtractedTypes

\* the comments texts, in input order, of the rows read so far that are
\* eligible and for which some tier succeeds
SelectedSubjects ==
  SelectSeq(Subjects(df), LAMBDA subject : OutcomeAlone(subject) # << >>)

\* C12 as stated: the output of first_analysis holds one record for each
\* eligible row read for which some tier succeeded, in input order, and none
\* for any other row; no record has an empty or "unknown" venue name or an
\* empty match type.
C12_NoPlaceholderRecord ==
  pc \in {"resolve", "score", "done"} =>
    /\ [j \in DOMAIN matches |-> matches[j].Subject] = SelectedSubjects
    /\ \A j \in DOMAIN matches :
         /\ matches[j].Publication \notin {"", "Unknown", "unknown"}
         /\ matches[j].Match_Type \in MatchTypes

\* C12, what the code decides, for the list `matches` during the loop over
\* the papers and at its end (nothing writes it afterwards): the same, except
\* that a record names the empty venue "" when a reference row has a
\* full-name cell of blanks only: the name is trimmed to "" (line 233) and
\* is_exact_match accepts "" for every eligible text.
C12_SelectedInOrder ==
  pc = "resolve" =>
    /\ [j \in DOMAIN matches |-> matches[j].Subject] = SelectedSubjects
    /\ \A j \in DOMAIN matches :
         /\ matches[j].Publication # "" \/ RefDefines("")
         /\ matches[j].Publication \notin {"Unknown", "unknown"}
         /\ matches[j].Match_Type \in MatchTypes

\* a run over a catalogue with a blank full name has finished with a record
\* for "Comments: Under review" whose venue is ""
C12_Witness ==
  /\ pc = "done"
  /\ publication_df = << LabelRow, RowSpace >>
  /\ Len(result_df) = 1
  /\ result_df[1].Subject = "Comments: Under review"
  /\ result_df[1].Publication = ""
  /\ result_df[1].Match_Type = "Exact Full Name"

(***************************************************************************)
(* C13                                                                     *)
(***************************************************************************)
\* position i of the text comes right after a conference indicator, blanks
\* in between allowed, letters compared in lower case (lines 340-343)
AfterIndicator(text, i) ==
  \E indicator \in conference_indicators :
    \E j \in 1..(i - Len(indicator)) :
      /\ At(Lower(text), j, indicator)
      /\ \A k \in (j + Len(indicator))..(i - 1) : Ch(text, k) \in SpaceSet

\* the name occurs in the text, and each of its occurrences comes right
\* after a conference indicator
OnlyAsTail(text, name) ==
  /\ Occ(Lower(text), Lower(name)) # {}
  /\ \A i \in Occ(Lower(text), Lower(name)) : AfterIndicator(text, i)

OrdinaryNames == Keys(journal_categories) \ special_journals

MLText ==
  "Comments: Accepted at the International Conference on Machine Learning (ICML 2024)"
ICMLFullName == Get(CONFERENCE_MAPPINGS, "ICML")

\* C13 as stated: is_exact_match never accepts an ordinary venue name that
\* occurs in the text only right after a conference indicator; and with both
\* "Machine Learning" and the full name of ICML in the catalogue, the text
\* "Comments: Accepted at the International Conference on Machine Learning
\* (ICML 2024)" resolves to the full name of ICML, whichever was inserted
\* first.
C13_NeverTheTail ==
  /\ \A k \in DOMAIN df :
       \E text \in { Field(df[k], 2) } :
         \A name \in OrdinaryNames :
           OnlyAsTail(text, name) => ~is_exact_match(text, name)
  /\ ( /\ df # << >> /\ LastSubject = MLText
       /\ pc = "resolve"
       /\ HasKey(journal_categories, "Machine Learning")
       /\ HasKey(journal_categories, ICMLFullName) ) =>
       /\ matches # << >>
       /\ LastMatch.Subject = MLText
       /\ LastMatch.Publication = ICMLFullName

\* C13, what the code decides: the test for a conference indicator guards
\* only the last of the three ways to accept a name (lines 327-346).  A name
\* that occurs only right after a conference indicator is rejected unless
\* one of the four acceptance patterns captures it (lines 303-317) or an
\* abbreviation in parentheses follows it (lines 321-323).  The text of the
\* example resolves to whichever of the two names was inserted first.  (The
\* texts are looked at while the loop over the papers runs.)
C13_GuardOfLastTestOnly ==
  /\ \A k \in (IF pc = "resolve" THEN DOMAIN df ELSE {}) :
       \E text \in { Field(df[k], 2) } :
         \A name \in OrdinaryNames :
           ( /\ OnlyAsTail(text, name)
             /\ \A words \in Range(ExtractHeads) \ {ToBePublishedIn} :
                  ~accepted_match(text, name, words)
             /\ ~abbr_match(text, name) ) => ~is_exact_match(text, name)
  /\ (df # << >> /\ LastSubject = MLText /\ pc = "resolve") =>
       /\ publication_df = << LabelRow, RowML, RowICML >> =>
            /\ matches # << >>
            /\ LastMatch.Subject = MLText
            /\ LastMatch.Publication = "Machine Learning"
       /\ publication_df = << LabelRow, RowICML, RowML >> =>
            /\ matches # << >>
            /\ LastMatch.Subject = MLText
            /\ LastMatch.Publication = ICMLFullName

\* with "Machine Learning" inserted before the full name of ICML, the text of
\* the example has been resolved to "Machine Learning"
C13_Witness ==
  /\ pc = "resolve"
  /\ publication_df = << LabelRow, RowML, RowICML >>
  /\ df # << >> /\ LastSubject = MLText
  /\ OnlyAsTail(MLText, "Machine Learning")
  /\ matches # << >>
  /\ LastMatch.Publication = "Machine Learning"
  /\ LastMatch.Match_Type = "Exact Full Name"

(***************************************************************************)
(* C14                                                                     *)
(***************************************************************************)
\* the short name consists of upper-case letters and of nothing else
AllUpperLetters(short_name) ==
  /\ Len(short_name) > 0
  /\ \A i \in 1..Len(short_name) : Ch(short_name, i) \in UpperSet

\* the short name has a lower-case letter
HasLower(short_name) ==
  \E i \in 1..Len(short_name) : Ch(short_name, i) \in LowerSet

\* the short name has an upper-case letter
HasUpper(short_name) ==
  \E i \in 1..Len(short_name) : Ch(short_name, i) \in UpperSet

\* the short names that occur in the text of record j, as a word of their
\* own or with a 4-digit year attached, and that the short-name table maps to
\* the venue of the record
ShortNamesOf(j) ==
  { journal_fullnames[k][1] :
      k \in { i \in AnyShortNameHits(matches[j].Subject) :
                journal_fullnames[i][2] = matches[j].Publication } }

ShortNameRecords ==
  { j \in DOMAIN matches : matches[j].Match_Type \in ShortNameTypes }

HoldsAbbr(candidate, abbr) ==
  \/ WordSearchCI(candidate, abbr)
  \/ WordYearSearchCI(candidate, abbr)
  \/ StartsWith(candidate, abbr)

\* the static pairs whose abbreviation the candidate holds
PairsHeld(candidate) ==
  { k \in DOMAIN CONFERENCE_MAPPINGS :
      HoldsAbbr(candidate, CONFERENCE_MAPPINGS[k][1]) }

\* the candidate satisfies one of the conditions of tier 3
Satisfies(candidate) ==
  HasKey(CONFERENCE_MAPPINGS, candidate) \/ PairsHeld(candidate) # {}

\* what tier 3 has to give for a candidate that satisfies a condition
Tier3Outcome(candidate) ==
  IF HasKey(CONFERENCE_MAPPINGS, candidate)
  THEN << Get(CONFERENCE_MAPPINGS, candidate), "Conference Name Match" >>
  ELSE << CONFERENCE_MAPPINGS[Min(PairsHeld(candidate))][2], "Conference Abbr Match" >>

\* C15: when tiers 1 and 2 found nothing for an eligible row, the candidates
\* of extract_conference_name are scanned in extraction order and the first
\* one that satisfies a condition decides: an exact key of the static table
\* gives "Conference Name Match" with that key's full name; otherwise the
\* first static pair, in table order, whose abbreviation the candidate holds
\* gives "Conference Abbr Match" with that pair's full name.  With no such
\* candidate the row gives no record.
C15_Tier3Order ==
  [][ ( /\ ReadsRow
        /\ In("Comments", NewSubject)
        /\ FullNameHits(NewSubject) = {}
        /\ UpperShortNameHits(NewSubject) = {} ) =>
        \E candidates \in { extract_conference_name(NewSubject) } :
          \E good \in { { c \in DOMAIN candidates : Satisfies(candidates[c]) } } :
            IF good = {} THEN NoRecord
            ELSE \E m \in { Tier3Outcome(candidates[Min(good)]) } :
                   /\ OneRecord
                   /\ NewMatch.Publication = m[1]
                   /\ NewMatch.Match_Type = m[2] ]_vars

\* "Comments: accepted to naacl 2022, Accepted at NeurIPS." has been resolved
\* by its first candidate, which holds the abbreviation NAACL, although its
\* second candidate is an exact key of the static table
C15_Witness ==
  /\ pc = "resolve"
  /\ df # << >> /\ matches # << >>
  /\ LastSubject = "Comments: accepted to naacl 2022, Accepted at NeurIPS."
  /\ LastMatch.Subject = LastSubject
  /\ extract_conference_name(LastSubject) = << "naacl 2022", "NeurIPS" >>
  /\ LastMatch.Publication = Get(CONFERENCE_MAPPINGS, "NAACL")
  /\ LastMatch.Match_Type = "Conference Abbr Match"

(***************************************************************************)
(* C16                                                                     *)
(***************************************************************************)
\* no later reference row names the short name of row k again
LastShortName(k) ==
  \A j \in (k + 1)..Len(publication_df) :
    Strip(Str(publication_df[j].jn)) # Strip(Str(publication_df[k].jn))

\* the first reference row leaves nothing in the tables: its full name and
\* its short name are keys only if an indexed row or the static table has
\* them too
FirstRowSkipped ==
  publication_df # << >> =>
    /\ HasKey(journal_categories, Strip(Str(publication_df[1].fn))) =>
         \/ \E k \in 2..Len(publication_df) :
              Indexed(k) /\ Strip(Str(publication_df[k].fn)) = Strip(Str(publication_df[1].fn))
         \/ \E pair \in Range(CONFERENCE_MAPPINGS) :
              pair[2] = Strip(Str(publication_df[1].fn))
    /\ HasKey(journal_fullnames, Strip(Str(publication_df[1].jn))) =>
         \/ \E k \in 2..Len(publication_df) :
              Indexed(k) /\ Strip(Str(publication_df[k].jn)) = Strip(Str(publication_df[1].jn))
         \/ \E pair \in Range(CONFERENCE_MAPPINGS) :
              pair[1] = Strip(Str(publication_df[1].jn))

\* row k is in the tables under its trimmed names, with its type, or with
\* "Unknown" when the type cell is empty
StoredAsRead(k) ==
  \E r \in { publication_df[k] } :
    /\ HasKey(journal_categories, Strip(Str(r.fn)))
    /\ LastShortName(k) =>
         /\ HasKey(journal_fullnames, Strip(Str(r.jn)))
         /\ Get(journal_fullnames, Strip(Str(r.jn))) = Strip(Str(r.fn))
    /\ LastDefinition(k) =>
         journal_types[Strip(Str(r.fn))] =
           IF IsNa(r.ty) THEN "Unknown" ELSE Strip(Str(r.ty))

\* C16 as stated: the first reference row is skipped, and every later row
\* that has a short name and a full name is indexed, its names trimmed and
\* its type "Unknown" when absent (rows whose level cell is a number are
\* left to C6).
C16_EveryLaterRowIndexed ==
  /\ FirstRowSkipped
  /\ \A k \in 2..Len(publication_df) :
       ( /\ publication_df[k].jn.k = "str" /\ publication_df[k].fn.k = "str"
         /\ publication_df[k].lv.k # "num" ) =>
         (Indexed(k) /\ StoredAsRead(k))

\* C16, what the code decides: the first reference row is skipped; a later
\* row is indexed as stated unless its short-name or full-name cell is no
\* text or its type or level cell is a number: .strip() then raises
\* AttributeError (lines 232-239), the row is not indexed and the run ends.
C16_TextRowsIndexed ==
  /\ FirstRowSkipped
  /\ \A k \in 2..Len(publication_df) :
       \E r \in { publication_df[k] } :
         IF r.jn.k = "str" /\ r.fn.k = "str" /\ r.ty.k # "num" /\ r.lv.k # "num"
         THEN Indexed(k) /\ StoredAsRead(k)
         ELSE /\ ~Indexed(k)
              /\ pc = "failed" /\ err = "AttributeError"

\* a reference row whose type cell holds the number 1 has been read after
\* the label row: the run has ended with AttributeError and the row's names
\* are in no table
C16_Witness ==
  /\ publication_df = << LabelRow, RowNumType >>
  /\ pc = "failed" /\ err = "AttributeError"
  /\ ~HasKey(journal_categories, "Knowledge Discovery and Data Mining")
  /\ ~HasKey(journal_fullnames, "KDD")

(***************************************************************************)
(* C17                                                                     *)
(***************************************************************************)
\* the record names a venue of the catalogue and carries the type and the
\* level the catalogue stores for it
FromCatalogue(rec) ==
  /\ HasKey(journal_categories, rec.Publication)
  /\ rec.Publication \in DOMAIN journal_types
  /\ rec.Publication \in DOMAIN journal_levels
  /\ rec.Publication_Type = journal_types[rec.Publication]
  /\ rec.Publication_Level = journal_levels[rec.Publication]

\* C17: every record, whichever tier produced it, names a key of the
\* full-name tables, and its type and level are the values stored for that
\* key; the defaults of the two lookups of lines 459-460 are never used.
C17_CatalogueClosure ==
  /\ \A j \in DOMAIN matches : FromCatalogue(matches[j])
  /\ \A j \in DOMAIN result_df : FromCatalogue(result_df[j])

\* a run has ended with two records, one of tier 3 and one of tier 2, whose
\* venues come from the static table and carry the stored type "Conference"
C17_Witness ==
  /\ pc = "done"
  /\ Len(result_df) = 2
  /\ result_df[1].Match_Type \in { "Conference Name Match", "Conference Abbr Match" }
  /\ result_df[2].Match_Type \in { "Exact Short Name", "Short Name with Year" }
  /\ \A j \in 1..2 :
       /\ \E pair \in Range(CONFERENCE_MAPPINGS) : pair[2] = result_df[j].Publication
       /\ result_df[j].Publication_Type = "Conference"
       /\ FromCatalogue(result_df[j])

====
